---- MODULE Spec2Model ----
(***************************************************************************)
(* Model of the grade tracker: the record types of models.py and the       *)
(* GradeRepository of repository.py (an in-memory dictionary of five       *)
(* collections, persisted as one JSON document per file path).             *)
(*                                                                         *)
(* Conventions of the model:                                               *)
(*   - a Python dict is a function from its keys (strings) to values; the  *)
(*     empty dict {} is the empty function <<>>;                           *)
(*   - a Python list is a sequence;                                        *)
(*   - an Optional value is a set of at most one element: None is {} and   *)
(*     a present value v is {v};                                           *)
(*   - the strings that take part in matching (fullName, name,             *)
(*     assessmentType and the Search strings) are sequences of characters, *)
(*     so that lower() and "in" are computed; other strings are opaque.    *)
(***************************************************************************)
EXTENDS Integers, Sequences, FiniteSets, TLC

VARIABLES
    filePath,   \* GradeRepository.filePath
    data,       \* GradeRepository._data
    files,      \* the file system: path -> [exists, doc]
    op,         \* the last call made on the store
    arg,        \* its argument
    ret,        \* what it returned
    held        \* the objects the caller holds: the list a getter returned

vars == <<filePath, data, files, op, arg, ret, held>>

----------------------------------------------------------------------------
(* Bounds of the model *)

\* The grades collection holds at most this many records.
MaxGrades == 2

\* A stored studentIds list of a backing file has at most this many entries.
MaxMembers == 3

\* nextGradeId is followed up to this id.
MaxGradeId == 4

\* The grades collection of a backing file has at most this many records.
MaxStoredGrades == 3

----------------------------------------------------------------------------
(* Python values *)

None == {}

Some(v) == {v}

\* dict.get(k, default)
Get(d, k, default) == IF k \in DOMAIN d THEN d[k] ELSE default

\* dict.get(k): None when the key is absent
GetOpt(d, k) == IF k \in DOMAIN d THEN Some(d[k]) ELSE None

EmptyDict == <<>>

\* str.lower() on one character of the model's alphabet
LowerChar(c) ==
    CASE c = "A" -> "a"
      [] c = "B" -> "b"
      [] OTHER -> c

\* A variant of lower() that leaves the letters as they are.
Lower_Unchanged(s) == s

\* str.lower()
Lower(s) == [i \in 1..Len(s) |-> LowerChar(s[i])]

\* Python's  sub in s  on strings
StrIn(sub, s) ==
    \E i \in 0..(Len(s) - Len(sub)) : SubSeq(s, i + 1, i + Len(sub)) = sub

\* truthiness of a str
Truthy(s) == Len(s) > 0

Today == "today"

----------------------------------------------------------------------------
(* models.py: Grade and Search *)

\* Grade.__init__: date defaults to today's date
Grade(id, value, assessmentType, studentId, disciplineId, teacherId, comment, date) ==
    [id |-> id, value |-> value, assessmentType |-> assessmentType,
     studentId |-> studentId, disciplineId |-> disciplineId,
     teacherId |-> teacherId, comment |-> comment,
     date |-> IF date # None THEN CHOOSE x \in date : TRUE ELSE Today]

\* Grade.to_dict
GradeToDict(g) ==
    [id |-> g.id, value |-> g.value, assessmentType |-> g.assessmentType,
     date |-> g.date, comment |-> g.comment, studentId |-> g.studentId,
     disciplineId |-> g.disciplineId, teacherId |-> g.teacherId]

\* Grade.from_dict: comment and date are optional keys
GradeFromDict(d) ==
    Grade(d["id"], d["value"], d["assessmentType"], d["studentId"],
          d["disciplineId"], d["teacherId"], Get(d, "comment", ""),
          GetOpt(d, "date"))

\* Search.__init__
Search(studentName, disciplineName, semester, assessmentType) ==
    [studentName |-> studentName, disciplineName |-> disciplineName,
     semester |-> semester, assessmentType |-> assessmentType]

----------------------------------------------------------------------------
(* The JSON document of a file *)

CollectionNames == <<"students", "teachers", "disciplines", "grades", "groups">>

\* The keys a record may carry; the document lists the members of an object
\* in this order (json.load does not depend on it).
KeyOrder ==
    <<"id", "fullName", "email", "passwordHash", "graduateBookNumber", "group",
      "department", "position", "name", "semester", "assessmentType",
      "specialty", "enrollmentYear", "studentIds", "value", "date", "comment",
      "studentId", "disciplineId", "teacherId">>

\* json.dump of one dict: its key/value members, in order
DumpDict(d) ==
    LET keys == SelectSeq(KeyOrder, LAMBDA k : k \in DOMAIN d)
    IN  [i \in 1..Len(keys) |-> <<keys[i], d[keys[i]]>>]

\* json.load of one object: a dict; a repeated key keeps its last value
LoadDict(members) ==
    LET keys == {members[i][1] : i \in 1..Len(members)}
        last(k) == CHOOSE i \in 1..Len(members) :
                      /\ members[i][1] = k
                      /\ \A j \in (i + 1)..Len(members) : members[j][1] # k
    IN  [k \in keys |-> members[last(k)][2]]

\* json.dump(self._data): the collections the dict holds, each a list of objects
JsonDump(d) ==
    LET names == SelectSeq(CollectionNames, LAMBDA n : n \in DOMAIN d)
    IN  [i \in 1..Len(names) |->
            <<names[i], [j \in 1..Len(d[names[i]]) |-> DumpDict(d[names[i]][j])]>>]

\* json.load(f)
JsonLoad(doc) ==
    LET names == {doc[i][1] : i \in 1..Len(doc)}
        last(n) == CHOOSE i \in 1..Len(doc) :
                      /\ doc[i][1] = n
                      /\ \A j \in (i + 1)..Len(doc) : doc[j][1] # n
    IN  [n \in names |->
            LET objects == doc[last(n)][2]
            IN  [j \in 1..Len(objects) |-> LoadDict(objects[j])]]

NoFile == [exists |-> FALSE, doc |-> <<>>]

FileOf(doc) == [exists |-> TRUE, doc |-> doc]

----------------------------------------------------------------------------
(* repository.py: GradeRepository, as functions of the state *)

\* __init__, lines 29-35: the five empty collections
EmptyData ==
    [students |-> <<>>, teachers |-> <<>>, disciplines |-> <<>>,
     grades |-> <<>>, groups |-> <<>>]

\* A variant of saveToJSON that writes the grades collection alone.
SaveToJSONFiles_GradesOnly(fs, path, d) ==
    [fs EXCEPT ![path] = FileOf(JsonDump([grades |-> d["grades"]]))]

\* saveToJSON: the whole of _data replaces the file at path
SaveToJSONFiles(fs, path, d) == [fs EXCEPT ![path] = FileOf(JsonDump(d))]

\* loadFromJSON: _data becomes what the file at path holds
LoadFromJSONData(fs, path) == JsonLoad(fs[path].doc)

\* __init__: load when the file exists, the empty collections otherwise
InitData(fs, path) ==
    IF fs[path].exists THEN LoadFromJSONData(fs, path) ELSE EmptyData

\* A variant of addGrade's append that appends the dict twice.
AddGradeData_AppendsTwice(d, grade) ==
    [d EXCEPT !["grades"] = Append(Append(@, GradeToDict(grade)), GradeToDict(grade))]

\* addGrade, line 49: append the grade's dict
AddGradeData(d, grade) ==
    [d EXCEPT !["grades"] = Append(@, GradeToDict(grade))]

\* A variant of removeGrade's filter that drops the first record of the id
\* only, as list.remove would.
RemoveGradeData_FirstOnly(d, id) ==
    LET hits == {i \in 1..Len(d["grades"]) : d["grades"][i]["id"] = id}
        first == CHOOSE i \in hits : \A j \in hits : i <= j
    IN  IF hits = {} THEN d
        ELSE [d EXCEPT !["grades"] = SubSeq(@, 1, first - 1) \o SubSeq(@, first + 1, Len(@))]

\* A variant of removeGrade that rebuilds the store around the kept grades.
RemoveGradeData_ResetsOthers(d, id) ==
    [students |-> <<>>, teachers |-> <<>>, disciplines |-> <<>>,
     grades |-> SelectSeq(d["grades"], LAMBDA g : g["id"] # id), groups |-> <<>>]

\* removeGrade, line 62: keep the records whose id differs
RemoveGradeData(d, id) ==
    [d EXCEPT !["grades"] = SelectSeq(@, LAMBDA g : g["id"] # id)]

\* The file that open(path, "w") has emptied and json.dump did not finish
\* writing: it exists and holds no complete document
Truncated == [exists |-> TRUE, doc |-> <<>>, truncated |-> TRUE]

\* The ways saveToJSON fails: makedirs or open raises and the file is as it
\* was, or the write raises after open has emptied the file
WriteFailures == {"open", "write"}

\* saveToJSON that raises: what it leaves of the files
SaveToJSONFails(fs, path, failure) ==
    IF failure = "open" THEN fs ELSE [fs EXCEPT ![path] = Truncated]

\* removeGrade, line 63: whether the collection got shorter
RemoveGradeFound(d, id) ==
    Len(RemoveGradeData(d, id)["grades"]) < Len(d["grades"])

\* {r["id"]: r for r in records}.get(id, {}): the last record of that id
IndexGet(records, id) ==
    LET hits == {i \in 1..Len(records) : records[i]["id"] = id}
    IN  IF hits = {} THEN EmptyDict
        ELSE records[CHOOSE i \in hits : \A j \in hits : j <= i]

\* findGrades, line 88: the student-name test sends the loop to continue
StudentNameSkips(criteria, student) ==
    /\ Truthy(criteria.studentName)
    /\ ~StrIn(Lower(criteria.studentName), Lower(Get(student, "fullName", <<>>)))

\* findGrades, line 90: the discipline-name test sends the loop to continue
DisciplineNameSkips(criteria, discipline) ==
    /\ Truthy(criteria.disciplineName)
    /\ ~StrIn(Lower(criteria.disciplineName), Lower(Get(discipline, "name", <<>>)))

\* findGrades, line 92: the semester test sends the loop to continue
SemesterSkips(criteria, discipline) ==
    /\ criteria.semester # None
    /\ GetOpt(discipline, "semester") # criteria.semester

\* A variant of the line-94 test that compares the type also when the
\* criteria leave it empty.
AssessmentTypeSkips_AlwaysCompared(criteria, gd) ==
    Lower(criteria.assessmentType) # Lower(Get(gd, "assessmentType", <<>>))

\* A variant of the line-94 test that matches by substring, as the other
\* string filters do.
AssessmentTypeSkips_Substring(criteria, gd) ==
    /\ Truthy(criteria.assessmentType)
    /\ ~StrIn(Lower(criteria.assessmentType), Lower(Get(gd, "assessmentType", <<>>)))

\* findGrades, line 94: the assessment-type test sends the loop to continue
AssessmentTypeSkips(criteria, gd) ==
    /\ Truthy(criteria.assessmentType)
    /\ Lower(criteria.assessmentType) # Lower(Get(gd, "assessmentType", <<>>))

\* A variant of the loop body that applies the student and discipline tests
\* only when the joined record was found.
FindGradesKeeps_MissingPasses(d, criteria, gd) ==
    LET student == IndexGet(d["students"], gd["studentId"])
        discipline == IndexGet(d["disciplines"], gd["disciplineId"])
    IN  IF student # EmptyDict /\ StudentNameSkips(criteria, student) THEN FALSE
        ELSE IF discipline # EmptyDict /\ DisciplineNameSkips(criteria, discipline) THEN FALSE
        ELSE IF discipline # EmptyDict /\ SemesterSkips(criteria, discipline) THEN FALSE
        ELSE IF AssessmentTypeSkips(criteria, gd) THEN FALSE
        ELSE TRUE

\* findGrades, lines 85-97: TRUE when the loop reaches result.append for gd
FindGradesKeeps(d, criteria, gd) ==
    LET student == IndexGet(d["students"], gd["studentId"])
        discipline == IndexGet(d["disciplines"], gd["disciplineId"])
    IN  IF StudentNameSkips(criteria, student) THEN FALSE
        ELSE IF DisciplineNameSkips(criteria, discipline) THEN FALSE
        ELSE IF SemesterSkips(criteria, discipline) THEN FALSE
        ELSE IF AssessmentTypeSkips(criteria, gd) THEN FALSE
        ELSE TRUE

RECURSIVE FindGradesLoop(_, _, _, _)
\* findGrades, lines 83-98: the loop over the grades from index i on
FindGradesLoop(d, criteria, i, result) ==
    IF i > Len(d["grades"]) THEN result
    ELSE LET gd == d["grades"][i]
         IN  IF FindGradesKeeps(d, criteria, gd)
             THEN FindGradesLoop(d, criteria, i + 1,
                                 Append(result, GradeFromDict(gd)))
             ELSE FindGradesLoop(d, criteria, i + 1, result)

\* findGrades
FindGradesOf(d, criteria) == FindGradesLoop(d, criteria, 1, <<>>)

RECURSIVE GetGradeByIdLoop(_, _, _)
\* getGradeById, lines 210-213: the first record of that id, or None
GetGradeByIdLoop(grades, gradeId, i) ==
    IF i > Len(grades) THEN None
    ELSE IF grades[i]["id"] = gradeId THEN Some(GradeFromDict(grades[i]))
    ELSE GetGradeByIdLoop(grades, gradeId, i + 1)

\* getGradeById
GetGradeByIdOf(d, gradeId) == GetGradeByIdLoop(d["grades"], gradeId, 1)

RECURSIVE MaxIdFrom(_, _, _)
\* max(g["id"] for g in grades), the running maximum from index i on
MaxIdFrom(grades, i, best) ==
    IF i > Len(grades) THEN best
    ELSE MaxIdFrom(grades, i + 1,
                   IF grades[i]["id"] > best THEN grades[i]["id"] ELSE best)

\* A variant of nextGradeId that counts the grades instead of taking the
\* largest id.
NextGradeIdOf_Count(d) == Len(d["grades"]) + 1

\* nextGradeId
NextGradeIdOf(d) ==
    IF Len(d["grades"]) = 0 THEN 1
    ELSE MaxIdFrom(d["grades"], 2, d["grades"][1]["id"]) + 1

----------------------------------------------------------------------------
(* The inputs of the model *)

Paths == {"p1", "p2"}

\* A backing file as test_repository.py seeds it: two students, a teacher,
\* two disciplines (semesters 4 and 3), a group and two grades; the second
\* grade is written by hand, without the optional comment and date.
SeedA ==
    [students |->
        << [id |-> 1, fullName |-> <<"A", "b">>, email |-> "a@a", passwordHash |-> "h1",
            graduateBookNumber |-> "23-001", group |-> "G1"],
           [id |-> 2, fullName |-> <<"b", "a">>, email |-> "i@i", passwordHash |-> "h2",
            graduateBookNumber |-> "23-002", group |-> "G1"] >>,
     teachers |->
        << [id |-> 1, fullName |-> <<"B">>, email |-> "r@r", passwordHash |-> "th1",
            department |-> "PI", position |-> "docent"] >>,
     disciplines |->
        << [id |-> 1, name |-> <<"a", "B">>, semester |-> 4, assessmentType |-> <<"a">>],
           [id |-> 2, name |-> <<"b">>, semester |-> 3, assessmentType |-> <<"b">>] >>,
     grades |->
        << [id |-> 1, value |-> 5, assessmentType |-> <<"a">>, date |-> "d1",
            comment |-> "ok", studentId |-> 1, disciplineId |-> 1, teacherId |-> 1],
           [id |-> 2, value |-> 4, assessmentType |-> <<"A", "b">>,
            studentId |-> 2, disciplineId |-> 2, teacherId |-> 1] >>,
     groups |->
        << [id |-> 1, name |-> "G1", specialty |-> "auto", enrollmentYear |-> 2023,
            studentIds |-> <<1, 2>>] >>]

\* A hand-edited backing file: two student records and two discipline
\* records share an id, the second grade references no stored student and
\* has no comment, and two collections are empty.
SeedB ==
    [students |->
        << [id |-> 1, fullName |-> <<"A", "b">>, email |-> "a@a", passwordHash |-> "h1",
            graduateBookNumber |-> "23-001", group |-> "G1"],
           [id |-> 1, fullName |-> <<"b", "b">>, email |-> "i@i", passwordHash |-> "h2",
            graduateBookNumber |-> "23-002", group |-> "G1"] >>,
     teachers |-> <<>>,
     disciplines |->
        << [id |-> 1, name |-> <<"a", "B">>, semester |-> 4, assessmentType |-> <<"b">>],
           [id |-> 1, name |-> <<"b">>, semester |-> 3, assessmentType |-> <<"b">>],
           [id |-> 2, name |-> <<"a">>, semester |-> 4, assessmentType |-> <<"a">>] >>,
     grades |->
        << [id |-> 1, value |-> 3, assessmentType |-> <<"A">>, date |-> "d2",
            comment |-> "", studentId |-> 1, disciplineId |-> 1, teacherId |-> 1],
           [id |-> 2, value |-> 2, assessmentType |-> <<"a", "b">>, date |-> "d2",
            studentId |-> 7, disciplineId |-> 2, teacherId |-> 1] >>,
     groups |-> <<>>]

\* The grade ids callers pass to addGrade, removeGrade and getGradeById.
GradeIds == {1, 2}

\* The grades callers add in Spec: one per id, with the default comment and
\* date on the odd ids and an explicit comment and date on the even ones.
GradeInputs ==
    {IF id % 2 = 1 THEN Grade(id, 5, <<"a">>, 1, 1, 1, "", None)
                   ELSE Grade(id, 3, <<"A", "b">>, 2, 7, 1, "c", Some("d1")) :
        id \in GradeIds}

\* The grades callers add in SpecQuery: every id with two shapes of the other
\* fields; the second references a discipline that is not stored.
QueryGradeInputs ==
    {Grade(id, 5, <<"a">>, 1, 1, 1, "", None) : id \in GradeIds}
    \cup {Grade(id, 3, <<"A", "b">>, 2, 7, 1, "c", Some("d1")) : id \in GradeIds}

\* The Search criteria callers pass.
SearchInputs ==
    {Search(sn, dn, sem, at) :
        sn \in {<<>>, <<"A", "B">>},
        dn \in {<<>>, <<"A", "b">>},
        sem \in {None, Some(3), Some(4)},
        at \in {<<>>, <<"A">>, <<"a", "B">>}}

----------------------------------------------------------------------------
(* Objects in the caller's hands                                           *)
(*                                                                         *)
(* An object a getter returned is a record of its attributes plus a field  *)
(* shares: the positions, in the collection it was read from, of the       *)
(* stored values whose storage the object uses as its own.  An object      *)
(* built from copies shares nothing; a write to an attribute of an object  *)
(* that shares position i is a write to the stored value at position i.    *)

\* loadFromJSON binds _data to a new document and the constructor makes a
\* new store: what the caller holds keeps the old values and from then on
\* shares nothing with the store in use.
Detached(objects) ==
    [k \in 1..Len(objects) |-> [objects[k] EXCEPT !.shares = {}]]

\* d[key] = value on a dict
SetKey(d, key, value) ==
    [x \in DOMAIN d \cup {key} |-> IF x = key THEN value ELSE d[x]]

\* A variant of the Grade handed out whose attributes are the stored
\* record's own.
GradeObject_Stored(gd, i) ==
    [class |-> "Grade", shares |-> {i}, obj |-> GradeFromDict(gd)]

\* The Grade that findGrades and getGradeById hand out for the record gd at
\* position i: Grade.from_dict passes the record's values to the
\* constructor, which binds them to the attributes of a new object.
GradeObject(gd, i) ==
    [class |-> "Grade", shares |-> {}, obj |-> GradeFromDict(gd)]

\* findGrades(criteria), as the list of objects it returns
RECURSIVE FindGradesObjectsLoop(_, _, _, _)
FindGradesObjectsLoop(d, criteria, i, result) ==
    IF i > Len(d["grades"]) THEN result
    ELSE FindGradesObjectsLoop(d, criteria, i + 1,
            IF FindGradesKeeps(d, criteria, d["grades"][i])
            THEN Append(result, GradeObject(d["grades"][i], i))
            ELSE result)

FindGradesObjects(d, criteria) == FindGradesObjectsLoop(d, criteria, 1, <<>>)

\* getGradeById(gradeId), as the objects it returns: the Grade of the first
\* record of the id, or nothing
GetGradeByIdObjects(d, gradeId) ==
    LET hits == {i \in 1..Len(d["grades"]) : d["grades"][i]["id"] = gradeId}
        first == CHOOSE i \in hits : \A j \in hits : i <= j
    IN  IF hits = {} THEN <<>> ELSE <<GradeObject(d["grades"][first], first)>>

\* g.value = newValue; g.comment = comment, seen from the store: the stored
\* records whose storage g uses take the two values
WriteGradeData(d, g, newValue, comment) ==
    [d EXCEPT !["grades"] =
        [i \in 1..Len(d["grades"]) |->
            IF i \in g.shares
            THEN SetKey(SetKey(d["grades"][i], "value", newValue), "comment", comment)
            ELSE d["grades"][i]]]

\* Teacher.editGrade(gradeId, newValue, comment, repo): the position, in
\* the list findGrades(Search()) returned, of the first Grade of the id
EditGradeHits(grades, gradeId) ==
    {k \in 1..Len(grades) : grades[k].obj.id = gradeId}

EditGradeFound(d, gradeId) ==
    EditGradeHits(FindGradesObjects(d, Search(<<>>, <<>>, None, <<>>)), gradeId) # {}

EditGradeData(d, gradeId, newValue, comment) ==
    LET grades == FindGradesObjects(d, Search(<<>>, <<>>, None, <<>>))
        hits == EditGradeHits(grades, gradeId)
        first == CHOOSE k \in hits : \A j \in hits : k <= j
    IN  IF hits = {} THEN d
        ELSE WriteGradeData(d, grades[first], newValue, comment)

\* Student.from_dict
StudentFromDict(d) ==
    [id |-> d["id"], fullName |-> d["fullName"], email |-> d["email"],
     passwordHash |-> d["passwordHash"],
     graduateBookNumber |-> d["graduateBookNumber"], group |-> d["group"]]

\* Discipline.from_dict
DisciplineFromDict(d) ==
    [id |-> d["id"], name |-> d["name"], semester |-> d["semester"],
     assessmentType |-> d["assessmentType"]]

\* The scan of getStudentById and getDisciplineById: the positions of the
\* records of the id
IdHits(records, id) == {i \in 1..Len(records) : records[i]["id"] = id}

\* A variant of the scan that keeps the last record of the id.
ScanById_Last(records, id) ==
    LET hits == IdHits(records, id)
    IN  IF hits = {} THEN None
        ELSE Some(records[CHOOSE i \in hits : \A j \in hits : j <= i])

\* for r in records: if r["id"] == id: return r -- the first record of the
\* id, or None
ScanById(records, id) ==
    LET hits == IdHits(records, id)
    IN  IF hits = {} THEN None
        ELSE Some(records[CHOOSE i \in hits : \A j \in hits : i <= j])

\* getStudentById(studentId)
GetStudentByIdOf(d, studentId) ==
    {StudentFromDict(r) : r \in ScanById(d["students"], studentId)}

\* getDisciplineById(disciplineId)
GetDisciplineByIdOf(d, disciplineId) ==
    {DisciplineFromDict(r) : r \in ScanById(d["disciplines"], disciplineId)}

\* getStudents()
GetStudentsOf(d) ==
    [i \in 1..Len(d["students"]) |-> StudentFromDict(d["students"][i])]

\* Student.getGrades(repo): findGrades with the student's full name as the
\* only criterion
StudentGetGradesOf(d, student) ==
    FindGradesOf(d, Search(student.fullName, <<>>, None, <<>>))

\* The elements of a list
Elems(list) == {list[i] : i \in 1..Len(list)}

\* A variant of from_dict that copies the stored list.
GroupFromDict_CopiesList(gd, i) ==
    [class |-> "Group", origin |-> "getGroups", shares |-> {},
     obj |-> [id |-> gd["id"], name |-> gd["name"], specialty |-> gd["specialty"],
              enrollmentYear |-> gd["enrollmentYear"],
              studentIds |-> Get(gd, "studentIds", <<>>)]]

\* Group.from_dict(gd) for the record at position i of the groups: the
\* constructor keeps the list it is given as _studentIds, and from_dict
\* gives it the record's own list when the record has one (a new empty list
\* otherwise)
GroupFromDict(gd, i) ==
    [class |-> "Group", origin |-> "getGroups",
     shares |-> IF "studentIds" \in DOMAIN gd THEN {i} ELSE {},
     obj |-> [id |-> gd["id"], name |-> gd["name"], specialty |-> gd["specialty"],
              enrollmentYear |-> gd["enrollmentYear"],
              studentIds |-> Get(gd, "studentIds", <<>>)]]

\* Group(id, name, specialty, enrollmentYear): studentIds is None, so the
\* object starts on a new empty list
GroupNew(id, name, specialty, enrollmentYear) ==
    [class |-> "Group", origin |-> "Group", shares |-> {},
     obj |-> [id |-> id, name |-> name, specialty |-> specialty,
              enrollmentYear |-> enrollmentYear, studentIds |-> <<>>]]

\* getGroups(), as the list of objects it returns
GetGroupsObjects(d) ==
    [i \in 1..Len(d["groups"]) |-> GroupFromDict(d["groups"][i], i)]

\* A variant of addStudent without the membership test.
AddStudentIds_AlwaysAppends(ids, studentId) == Append(ids, studentId)

\* Group.addStudent on the list ids: append unless the id is in the list
AddStudentIds(ids, studentId) ==
    IF studentId \notin Elems(ids) THEN Append(ids, studentId) ELSE ids

\* Group.removeStudent: whether the id is in the list
RemoveStudentFound(ids, studentId) == studentId \in Elems(ids)

\* A variant of removeStudent that drops every occurrence.
RemoveStudentIds_DropsAll(ids, studentId) ==
    SelectSeq(ids, LAMBDA x : x # studentId)

\* Group.removeStudent on the list ids: list.remove takes out the first
\* occurrence
RemoveStudentIds(ids, studentId) ==
    IF studentId \notin Elems(ids) THEN ids
    ELSE LET first == CHOOSE i \in 1..Len(ids) :
                        /\ ids[i] = studentId
                        /\ \A j \in 1..(i - 1) : ids[j] # studentId
         IN  SubSeq(ids, 1, first - 1) \o SubSeq(ids, first + 1, Len(ids))

\* A change of the list of Group g, seen from the store: the stored records
\* whose list is g's own have the new list
WriteGroupData(d, g, ids) ==
    [d EXCEPT !["groups"] =
        [i \in 1..Len(d["groups"]) |->
            IF i \in g.shares
            THEN SetKey(d["groups"][i], "studentIds", ids)
            ELSE d["groups"][i]]]

----------------------------------------------------------------------------
(* The operations of the store, one action each *)

\* A variant of the constructor that writes the empty store when there is
\* no file yet.
Construct_CreatesFile(path) ==
    /\ filePath' = path
    /\ data' = InitData(files, path)
    /\ files' = IF files[path].exists THEN files
                ELSE SaveToJSONFiles(files, path, data')
    /\ op' = "init" /\ arg' = path /\ ret' = None
    /\ held' = Detached(held)

\* GradeRepository(path): a new store on path replaces the one in use
Construct(path) ==
    /\ filePath' = path
    /\ data' = InitData(files, path)
    /\ UNCHANGED files
    /\ op' = "init" /\ arg' = path /\ ret' = None
    /\ held' = Detached(held)

\* A variant of addGrade that saves before it appends.
AddGrade_SavesBeforeAppend(grade) ==
    /\ Len(data["grades"]) < MaxGrades
    /\ data' = AddGradeData(data, grade)
    /\ files' = SaveToJSONFiles(files, filePath, data)
    /\ UNCHANGED filePath
    /\ op' = "addGrade" /\ arg' = grade /\ ret' = None
    /\ UNCHANGED held

\* addGrade(grade): append, then save to filePath
AddGrade(grade) ==
    /\ Len(data["grades"]) < MaxGrades
    /\ data' = AddGradeData(data, grade)
    /\ files' = SaveToJSONFiles(files, filePath, data')
    /\ UNCHANGED filePath
    /\ op' = "addGrade" /\ arg' = grade /\ ret' = None
    /\ UNCHANGED held

\* A variant of addGrade that writes first and appends when the write is
\* done.
AddGradeWriteFails_SavesBeforeAppend(grade, failure) ==
    /\ Len(data["grades"]) < MaxGrades
    /\ UNCHANGED data
    /\ files' = SaveToJSONFails(files, filePath, failure)
    /\ UNCHANGED filePath
    /\ op' = "addGrade" /\ arg' = grade /\ ret' = Some("OSError")
    /\ UNCHANGED held

\* addGrade(grade) when the write fails: the record is appended, saveToJSON
\* raises and the exception leaves addGrade
AddGradeWriteFails(grade, failure) ==
    /\ Len(data["grades"]) < MaxGrades
    /\ data' = AddGradeData(data, grade)
    /\ files' = SaveToJSONFails(files, filePath, failure)
    /\ UNCHANGED filePath
    /\ op' = "addGrade" /\ arg' = grade /\ ret' = Some("OSError")
    /\ UNCHANGED held

\* A variant of removeGrade that saves whether or not a record went.
RemoveGrade_AlwaysSaves(id) ==
    /\ data' = RemoveGradeData(data, id)
    /\ files' = SaveToJSONFiles(files, filePath, data')
    /\ UNCHANGED filePath
    /\ op' = "removeGrade" /\ arg' = id /\ ret' = RemoveGradeFound(data, id)
    /\ UNCHANGED held

\* removeGrade(id): filter, and save to filePath only when a record went
RemoveGrade(id) ==
    /\ data' = RemoveGradeData(data, id)
    /\ files' = IF RemoveGradeFound(data, id)
                THEN SaveToJSONFiles(files, filePath, data')
                ELSE files
    /\ UNCHANGED filePath
    /\ op' = "removeGrade" /\ arg' = id /\ ret' = RemoveGradeFound(data, id)
    /\ UNCHANGED held

\* findGrades(criteria)
FindGrades(criteria) ==
    /\ UNCHANGED <<filePath, data, files>>
    /\ op' = "findGrades" /\ arg' = criteria /\ ret' = FindGradesOf(data, criteria)
    /\ UNCHANGED held

\* saveToJSON(path)
SaveToJSON(path) ==
    /\ files' = SaveToJSONFiles(files, path, data)
    /\ UNCHANGED <<filePath, data>>
    /\ op' = "saveToJSON" /\ arg' = path /\ ret' = None
    /\ UNCHANGED held

\* loadFromJSON(path): open() raises FileNotFoundError when there is no file
LoadFromJSON(path) ==
    /\ data' = IF files[path].exists THEN LoadFromJSONData(files, path) ELSE data
    /\ UNCHANGED <<filePath, files>>
    /\ op' = "loadFromJSON" /\ arg' = path
    /\ ret' = IF files[path].exists THEN None ELSE Some("FileNotFoundError")
    /\ held' = IF files[path].exists THEN Detached(held) ELSE held

\* getGradeById(gradeId)
GetGradeById(gradeId) ==
    /\ UNCHANGED <<filePath, data, files>>
    /\ op' = "getGradeById" /\ arg' = gradeId /\ ret' = GetGradeByIdOf(data, gradeId)
    /\ UNCHANGED held

\* nextGradeId()
NextGradeId ==
    /\ UNCHANGED <<filePath, data, files>>
    /\ op' = "nextGradeId" /\ arg' = None /\ ret' = NextGradeIdOf(data)
    /\ UNCHANGED held

\* findGrades(criteria), the caller keeping the list
FindGradesHeld(criteria) ==
    /\ UNCHANGED <<filePath, data, files>>
    /\ op' = "findGrades" /\ arg' = criteria /\ ret' = FindGradesOf(data, criteria)
    /\ held' = FindGradesObjects(data, criteria)

\* getGradeById(gradeId), the caller keeping the Grade
GetGradeByIdHeld(gradeId) ==
    /\ UNCHANGED <<filePath, data, files>>
    /\ op' = "getGradeById" /\ arg' = gradeId /\ ret' = GetGradeByIdOf(data, gradeId)
    /\ held' = GetGradeByIdObjects(data, gradeId)

\* The caller assigns value and comment on the k-th Grade it holds
SetGradeAttrs(k, edit) ==
    /\ k \in 1..Len(held)
    /\ held[k].class = "Grade"
    /\ held' = [held EXCEPT ![k].obj.value = edit.value,
                            ![k].obj.comment = edit.comment]
    /\ data' = WriteGradeData(data, held[k], edit.value, edit.comment)
    /\ UNCHANGED <<filePath, files>>
    /\ op' = "Grade.setattr" /\ arg' = [k |-> k, edit |-> edit] /\ ret' = None

\* Teacher.editGrade(gradeId, newValue, comment, repo)
EditGrade(gradeId, edit) ==
    /\ data' = EditGradeData(data, gradeId, edit.value, edit.comment)
    /\ files' = IF EditGradeFound(data, gradeId)
                THEN SaveToJSONFiles(files, filePath, data')
                ELSE files
    /\ UNCHANGED <<filePath, held>>
    /\ op' = "editGrade" /\ arg' = [gradeId |-> gradeId, edit |-> edit]
    /\ ret' = EditGradeFound(data, gradeId)

\* getGroups(), the caller keeping the list
GetGroups ==
    /\ UNCHANGED <<filePath, data, files>>
    /\ held' = GetGroupsObjects(data)
    /\ op' = "getGroups" /\ arg' = None
    /\ ret' = [i \in 1..Len(held') |-> held'[i].obj]

\* Group(...), the caller keeping the new Group in place of what it held
NewGroup ==
    /\ UNCHANGED <<filePath, data, files>>
    /\ held' = <<GroupNew(1, "G1", "auto", 2023)>>
    /\ op' = "Group" /\ arg' = None /\ ret' = None

\* addStudent(student) on the k-th Group the caller holds
GroupAddStudent(k, studentId) ==
    /\ k \in 1..Len(held)
    /\ held[k].class = "Group"
    /\ held' = [held EXCEPT ![k].obj.studentIds = AddStudentIds(@, studentId)]
    /\ data' = WriteGroupData(data, held[k], held'[k].obj.studentIds)
    /\ UNCHANGED <<filePath, files>>
    /\ op' = "Group.addStudent" /\ arg' = [k |-> k, studentId |-> studentId]
    /\ ret' = None

\* removeStudent(studentId) on the k-th Group the caller holds
GroupRemoveStudent(k, studentId) ==
    /\ k \in 1..Len(held)
    /\ held[k].class = "Group"
    /\ held' = [held EXCEPT ![k].obj.studentIds = RemoveStudentIds(@, studentId)]
    /\ data' = WriteGroupData(data, held[k], held'[k].obj.studentIds)
    /\ UNCHANGED <<filePath, files>>
    /\ op' = "Group.removeStudent" /\ arg' = [k |-> k, studentId |-> studentId]
    /\ ret' = RemoveStudentFound(held[k].obj.studentIds, studentId)

\* getStudentById(studentId)
GetStudentById(studentId) ==
    /\ UNCHANGED <<filePath, data, files, held>>
    /\ op' = "getStudentById" /\ arg' = studentId
    /\ ret' = GetStudentByIdOf(data, studentId)

\* getDisciplineById(disciplineId)
GetDisciplineById(disciplineId) ==
    /\ UNCHANGED <<filePath, data, files, held>>
    /\ op' = "getDisciplineById" /\ arg' = disciplineId
    /\ ret' = GetDisciplineByIdOf(data, disciplineId)

\* student.getGrades(repo)
StudentGetGrades(student) ==
    /\ UNCHANGED <<filePath, data, files, held>>
    /\ op' = "Student.getGrades" /\ arg' = student
    /\ ret' = StudentGetGradesOf(data, student)

----------------------------------------------------------------------------
(* Spec: the life of a store and its backing files *)

Init ==
    /\ filePath = "p1"
    /\ \E f1 \in {NoFile, FileOf(JsonDump(SeedA))},
          f2 \in {NoFile, FileOf(JsonDump(SeedB))} :
            files = [p \in Paths |-> IF p = "p1" THEN f1 ELSE f2]
    /\ data = InitData(files, filePath)
    /\ op = "init" /\ arg = filePath /\ ret = None
    /\ held = <<>>

Next ==
    \/ \E path \in Paths : Construct(path)
    \/ \E grade \in GradeInputs : AddGrade(grade)
    \/ \E id \in GradeIds : RemoveGrade(id)
    \/ \E path \in Paths : SaveToJSON(path)
    \/ \E path \in Paths : LoadFromJSON(path)
    \/ FindGrades(Search(<<>>, <<>>, None, <<>>))
    \/ NextGradeId

Spec == Init /\ [][Next]_vars

----------------------------------------------------------------------------
(* SpecQuery: the read-only operations, applied to the stores that the     *)
(* seeds, addGrade and removeGrade give                                    *)

InitQuery ==
    /\ filePath = "p1"
    /\ \E seed \in {SeedA, SeedB} :
            files = [p \in Paths |-> IF p = "p1" THEN FileOf(JsonDump(seed)) ELSE NoFile]
    /\ data = InitData(files, filePath)
    /\ op = "init" /\ arg = filePath /\ ret = None
    /\ held = <<>>

NextQuery ==
    \/ \E grade \in QueryGradeInputs : AddGrade(grade)
    \/ \E id \in GradeIds : RemoveGrade(id)
    \/ \E criteria \in SearchInputs : FindGrades(criteria)
    \/ \E id \in GradeIds : GetGradeById(id)
    \/ NextGradeId

SpecQuery == InitQuery /\ [][NextQuery]_vars

----------------------------------------------------------------------------
(* SpecObjects: a caller that keeps the Grade objects the store returns    *)
(* and writes to them, and a teacher who edits grades                      *)

\* newValue and comment of an edit
EditInputs ==
    {[value |-> 2, comment |-> "edited"], [value |-> 5, comment |-> ""]}

NextObjects ==
    \/ \E criteria \in {Search(<<>>, <<>>, None, <<>>),
                         Search(<<"A", "B">>, <<>>, None, <<>>)} :
            FindGradesHeld(criteria)
    \/ \E id \in GradeIds : GetGradeByIdHeld(id)
    \/ \E k \in 1..MaxGrades, edit \in EditInputs : SetGradeAttrs(k, edit)
    \/ \E id \in GradeIds, edit \in EditInputs : EditGrade(id, edit)
    \/ \E id \in GradeIds : RemoveGrade(id)

SpecObjects == InitQuery /\ [][NextObjects]_vars

----------------------------------------------------------------------------
(* SpecGroup: a caller that works with Group objects, new ones and the     *)
(* ones getGroups returns, over a store whose file holds one group         *)

\* The student ids of the stored lists, and the ids callers pass
StoredStudentIds == {1, 2}

StudentIdInputs == {1, 2, 3}

\* The studentIds lists a backing file may hold
StoredIdLists ==
    UNION {[1..n -> StoredStudentIds] : n \in 0..MaxMembers}

\* The group record of the file: with a studentIds list, or without the key
GroupRecords ==
    {[id |-> 1, name |-> "G1", specialty |-> "auto", enrollmentYear |-> 2023,
      studentIds |-> ids] : ids \in StoredIdLists}
    \cup {[id |-> 1, name |-> "G1", specialty |-> "auto", enrollmentYear |-> 2023]}

InitGroup ==
    /\ filePath = "p1"
    /\ \E g \in GroupRecords :
            files = [p \in Paths |->
                        IF p = "p1"
                        THEN FileOf(JsonDump([EmptyData EXCEPT !["groups"] = <<g>>]))
                        ELSE NoFile]
    /\ data = InitData(files, filePath)
    /\ op = "init" /\ arg = filePath /\ ret = None
    /\ held = <<>>

NextGroup ==
    \/ GetGroups
    \/ NewGroup
    \/ \E studentId \in StudentIdInputs : GroupAddStudent(1, studentId)
    \/ \E studentId \in StudentIdInputs : GroupRemoveStudent(1, studentId)

SpecGroup == InitGroup /\ [][NextGroup]_vars

----------------------------------------------------------------------------
(* SpecNextId: a caller that takes the id of every grade it adds from      *)
(* nextGradeId(), and removes grades at will                               *)

\* addGrade(Grade(id=repo.nextGradeId(), ...))
AddNextGrade ==
    /\ NextGradeIdOf(data) <= MaxGradeId
    /\ AddGrade(Grade(NextGradeIdOf(data), 5, <<"a">>, 1, 1, 1, "", None))

InitNextId ==
    /\ filePath = "p1"
    /\ \E f1 \in {NoFile, FileOf(JsonDump(SeedA)), FileOf(JsonDump(SeedB))} :
            files = [p \in Paths |-> IF p = "p1" THEN f1 ELSE NoFile]
    /\ data = InitData(files, filePath)
    /\ op = "init" /\ arg = filePath /\ ret = None
    /\ held = <<>>

NextNextId ==
    \/ AddNextGrade
    \/ \E id \in 1..MaxGradeId : RemoveGrade(id)
    \/ NextGradeId

SpecNextId == InitNextId /\ [][NextNextId]_vars

----------------------------------------------------------------------------
(* SpecJoin: the lookups by id and a student's own grades, over the        *)
(* seeded stores and a store in which one student's name contains          *)
(* another's                                                               *)

SeedC == [SeedA EXCEPT !["students"][2]["fullName"] = <<"b", "A", "b">>]

\* The ids callers look up: the stored ones and one of no record
LookupIds == {1, 2, 7}

InitJoin ==
    /\ filePath = "p1"
    /\ \E seed \in {SeedA, SeedB, SeedC} :
            files = [p \in Paths |-> IF p = "p1" THEN FileOf(JsonDump(seed)) ELSE NoFile]
    /\ data = InitData(files, filePath)
    /\ op = "init" /\ arg = filePath /\ ret = None
    /\ held = <<>>

NextJoin ==
    \/ \E id \in LookupIds : GetStudentById(id)
    \/ \E id \in LookupIds : GetDisciplineById(id)
    \/ \E student \in Elems(GetStudentsOf(data)) : StudentGetGrades(student)
    \/ \E grade \in GradeInputs : AddGrade(grade)
    \/ \E id \in GradeIds : RemoveGrade(id)

SpecJoin == InitJoin /\ [][NextJoin]_vars

----------------------------------------------------------------------------
(* SpecRemove: removeGrade over stores whose file holds up to              *)
(* MaxStoredGrades grade records, ids repeated or not                      *)

\* The grade records of the files: the two of the first seed and the first
\* of the second, which has the id of the first
StoredGradeRecords ==
    {SeedA["grades"][1], SeedA["grades"][2], SeedB["grades"][1]}

StoredGradeLists ==
    UNION {[1..n -> StoredGradeRecords] : n \in 0..MaxStoredGrades}

InitRemove ==
    /\ filePath = "p1"
    /\ \E grades \in StoredGradeLists :
            files = [p \in Paths |->
                        IF p = "p1"
                        THEN FileOf(JsonDump([SeedA EXCEPT !["grades"] = grades]))
                        ELSE NoFile]
    /\ data = InitData(files, filePath)
    /\ op = "init" /\ arg = filePath /\ ret = None
    /\ held = <<>>

NextRemove ==
    \/ \E id \in LookupIds : RemoveGrade(id)
    \/ \E grade \in GradeInputs : AddGrade(grade)

SpecRemove == InitRemove /\ [][NextRemove]_vars

----------------------------------------------------------------------------
(* SpecWriteFail: a store whose writes may fail inside addGrade            *)

InitWriteFail ==
    /\ filePath = "p1"
    /\ \E f1 \in {NoFile, FileOf(JsonDump(SeedA))} :
            files = [p \in Paths |-> IF p = "p1" THEN f1 ELSE NoFile]
    /\ data = InitData(files, filePath)
    /\ op = "init" /\ arg = filePath /\ ret = None
    /\ held = <<>>

NextWriteFail ==
    \/ \E grade \in GradeInputs : AddGrade(grade)
    \/ \E grade \in GradeInputs, failure \in WriteFailures :
            AddGradeWriteFails(grade, failure)
    \/ \E id \in GradeIds : RemoveGrade(id)
    \/ SaveToJSON(filePath)

SpecWriteFail == InitWriteFail /\ [][NextWriteFail]_vars

----------------------------------------------------------------------------
(* SpecLoad: construction, loads and saves over backing files, one of      *)
(* which is a JSON object that lacks three of the five collections         *)

\* A backing file that is valid JSON and holds two collections only
SeedPartial == [students |-> SeedA["students"], grades |-> SeedA["grades"]]

InitLoad ==
    /\ filePath = "p1"
    /\ \E f1 \in {NoFile, FileOf(JsonDump(SeedA)), FileOf(JsonDump(SeedPartial))},
          f2 \in {NoFile, FileOf(JsonDump(SeedB)), FileOf(JsonDump(SeedPartial))} :
            files = [p \in Paths |-> IF p = "p1" THEN f1 ELSE f2]
    /\ data = InitData(files, filePath)
    /\ op = "init" /\ arg = filePath /\ ret = None
    /\ held = <<>>

NextLoad ==
    \/ \E path \in Paths : Construct(path)
    \/ \E path \in Paths : LoadFromJSON(path)
    \/ \E path \in Paths : SaveToJSON(path)

SpecLoad == InitLoad /\ [][NextLoad]_vars

----------------------------------------------------------------------------
(* What the claims speak of *)

Grades == data["grades"]

EmptySearch == Search(<<>>, <<>>, None, <<>>)

\* s contains sub, letter case ignored
ContainsNoCase(s, sub) ==
    \E k \in 0..Len(s) :
        /\ k + Len(sub) <= Len(s)
        /\ \A j \in 1..Len(sub) : LowerChar(s[k + j]) = LowerChar(sub[j])

\* s and t are the same string, letter case ignored
EqualNoCase(s, t) ==
    /\ Len(s) = Len(t)
    /\ \A j \in 1..Len(s) : LowerChar(s[j]) = LowerChar(t[j])

\* The stored records a grade record references: the positions in the
\* collection that carry its foreign key.
StudentRefs(gd) ==
    {i \in 1..Len(data["students"]) : data["students"][i]["id"] = gd["studentId"]}

DisciplineRefs(gd) ==
    {i \in 1..Len(data["disciplines"]) : data["disciplines"][i]["id"] = gd["disciplineId"]}

\* The record the search joins a grade against: of the records carrying the
\* key, the one stored last.
Resolved(records, refs) == records[CHOOSE i \in refs : \A j \in refs : j <= i]

\* The four predicates of a search, each on one grade record
StudentNameHolds(gd, c) ==
    /\ StudentRefs(gd) # {}
    /\ ContainsNoCase(Resolved(data["students"], StudentRefs(gd))["fullName"],
                      c.studentName)

DisciplineNameHolds(gd, c) ==
    /\ DisciplineRefs(gd) # {}
    /\ ContainsNoCase(Resolved(data["disciplines"], DisciplineRefs(gd))["name"],
                      c.disciplineName)

SemesterHolds(gd, c) ==
    /\ DisciplineRefs(gd) # {}
    /\ Resolved(data["disciplines"], DisciplineRefs(gd))["semester"] \in c.semester

AssessmentTypeHolds(gd, c) == EqualNoCase(gd["assessmentType"], c.assessmentType)

\* A grade record satisfies every predicate of c that is set
Satisfies(gd, c) ==
    /\ c.studentName # <<>> => StudentNameHolds(gd, c)
    /\ c.disciplineName # <<>> => DisciplineNameHolds(gd, c)
    /\ c.semester # None => SemesterHolds(gd, c)
    /\ c.assessmentType # <<>> => AssessmentTypeHolds(gd, c)

\* The k-th smallest member of a set of positions
Kth(S, k) == CHOOSE i \in S : Cardinality({j \in S : j <= i}) = k

\* A returned Grade carries the values of a stored record
SameFields(grade, gd) == \A key \in DOMAIN gd : grade[key] = gd[key]

\* A stored record is among the grades a call returned
Returned(gd, result) ==
    \E k \in 1..Len(result) :
        /\ SameFields(result[k], gd)
        /\ result[k] = GradeFromDict(gd)

----------------------------------------------------------------------------
(* The claims *)

\* C1: findGrades(Search()) with no filter set returns one Grade per record
\* of the grades collection, with the record's field values, in storage order.
C1_FindAllReturnsEveryGrade ==
    (op = "findGrades" /\ arg = EmptySearch) =>
        /\ Len(ret) = Len(Grades)
        /\ \A i \in 1..Len(Grades) : SameFields(ret[i], Grades[i])

\* C1 witness: an unfiltered search over two records with different ids, one
\* of them stored without the optional comment and date.
C1_Witness ==
    /\ op = "findGrades" /\ arg = EmptySearch
    /\ Len(ret) = 2 /\ ret[1].id # ret[2].id
    /\ \E i \in 1..Len(Grades) : "date" \notin DOMAIN Grades[i]

C5_NextGradeIdIsMaxPlusOne ==
    op = "nextGradeId" =>
        /\ Len(Grades) = 0 => ret = 1
        /\ Len(Grades) > 0 =>
              /\ \E i \in 1..Len(Grades) : Grades[i]["id"] = ret - 1
              /\ \A i \in 1..Len(Grades) : Grades[i]["id"] <= ret - 1
        /\ \A i \in 1..Len(Grades) : Grades[i]["id"] # ret

\* C5 witness: nextGradeId on a store whose only grade has id 2, after a
\* removal: the answer is 3, not the number of grades plus one.
C5_Witness ==
    /\ op = "nextGradeId" /\ ret = 3
    /\ Len(Grades) = 1

\* C5 witness, the empty case
C5_WitnessEmpty == op = "nextGradeId" /\ ret = 1 /\ Len(Grades) = 0

----------------------------------------------------------------------------
(* The claims on the life of the store *)

\* No two records of a grades collection share an id
UniqueIds(grades) ==
    \A i, j \in 1..Len(grades) : i # j => grades[i]["id"] # grades[j]["id"]

\* The ids of a grades collection
IdsOf(grades) == {grades[i]["id"] : i \in 1..Len(grades)}

\* The positions of the records of an id
WithId(grades, id) == {i \in 1..Len(grades) : grades[i]["id"] = id}

\* C6, as claimed: from a store with unique grade ids, any addGrade or
\* removeGrade call leaves the grade ids unique.
C6_AnyAddOrRemoveKeepsIdsUnique ==
    [][(UniqueIds(data["grades"]) /\ op' \in {"addGrade", "removeGrade"})
          => UniqueIds(data'["grades"])]_vars

\* C6, amended: from a store with unique grade ids, a removeGrade call, and
\* an addGrade call whose grade id is the id of no stored grade, leave the
\* grade ids unique.
C6_FreshAddOrRemoveKeepsIdsUnique ==
    [][(/\ UniqueIds(data["grades"])
        /\ \/ op' = "removeGrade"
           \/ op' = "addGrade" /\ arg'.id \notin IdsOf(data["grades"]))
          => UniqueIds(data'["grades"])]_vars

\* C6 witness: addGrade has added a second grade, under an id not yet stored.
C6_Witness ==
    /\ op = "addGrade" /\ Len(Grades) = 2
    /\ Grades[2] = GradeToDict(arg)
    /\ UniqueIds(Grades)

\* C7, as claimed: removeGrade(id) returns True, shortens the grades
\* collection by exactly one record and leaves getGradeById(id) None when a
\* grade of that id is stored; it returns False and leaves the collection
\* unchanged otherwise.
C7_RemoveErasesExactlyOne ==
    [][op' = "removeGrade" =>
          IF arg' \in IdsOf(data["grades"])
          THEN /\ ret' = TRUE
               /\ Len(data'["grades"]) = Len(data["grades"]) - 1
               /\ GetGradeByIdOf(data', arg') = None
          ELSE /\ ret' = FALSE
               /\ data'["grades"] = data["grades"]]_vars

\* C7, amended: removeGrade(id) returns True, erases every record of that id
\* (exactly one when the grade ids are unique) and leaves getGradeById(id)
\* None when a grade of that id is stored; it returns False and leaves the
\* collection unchanged otherwise.
C7_RemoveErasesEveryRecordOfTheId ==
    [][op' = "removeGrade" =>
          IF arg' \in IdsOf(data["grades"])
          THEN /\ ret' = TRUE
               /\ Len(data'["grades"])
                    = Len(data["grades"]) - Cardinality(WithId(data["grades"], arg'))
               /\ UniqueIds(data["grades"])
                    => Len(data'["grades"]) = Len(data["grades"]) - 1
               /\ WithId(data'["grades"], arg') = {}
               /\ GetGradeByIdOf(data', arg') = None
          ELSE /\ ret' = FALSE
               /\ data'["grades"] = data["grades"]]_vars

\* C7 witness: removeGrade returned True and a grade of another id is kept.
C7_Witness ==
    /\ op = "removeGrade" /\ ret = TRUE
    /\ Len(Grades) = 1 /\ Grades[1]["id"] # arg

\* The backing file holds the five collections of the store: a store
\* constructed on it now gets the same state.
InSync == files[filePath].exists /\ InitData(files, filePath) = data

\* The same of the state a step leads to
InSyncAfter == files'[filePath'].exists /\ InitData(files', filePath') = data'

\* C8: an addGrade, and a removeGrade that removed a record, leave the
\* backing file at filePath holding the in-memory collections, and a
\* removeGrade that removed nothing keeps it so: after addGrade and
\* removeGrade calls of which one took effect, a store constructed on the
\* file holds every grade added and not removed, with the same field values.
C8_MutationsWriteTheFullState ==
    [][/\ (op' = "addGrade" \/ (op' = "removeGrade" /\ ret' = TRUE)) => InSyncAfter
       /\ (op' = "removeGrade" /\ ret' = FALSE /\ InSync) => InSyncAfter]_vars

\* C8 witness: addGrade has added a grade with the default date to a store
\* that holds another grade, and the file at filePath holds both.
C8_Witness ==
    /\ op = "addGrade" /\ Len(Grades) = 2
    /\ Grades[2]["date"] = Today
    /\ InSync
    /\ JsonLoad(files[filePath].doc)["grades"] = Grades

\* C9: after saveToJSON(path), loadFromJSON(path) and a store constructed on
\* path get a state equal to the saved one in all five collections.
C9_SaveThenLoadIsIdentity ==
    op = "saveToJSON" =>
        /\ files[arg].exists
        /\ LoadFromJSONData(files, arg) = data
        /\ InitData(files, arg) = data
        /\ \A i \in 1..Len(CollectionNames) :
              LoadFromJSONData(files, arg)[CollectionNames[i]] = data[CollectionNames[i]]

\* C9 witness: saveToJSON to a path other than filePath of a state with two
\* grades, one of them without the optional keys, and an empty collection.
C9_Witness ==
    /\ op = "saveToJSON" /\ arg # filePath
    /\ Len(Grades) = 2
    /\ \E i \in 1..Len(Grades) : "comment" \notin DOMAIN Grades[i]
    /\ \E n \in DOMAIN data : data[n] = <<>>

\* C10: a store constructed where no file exists has five empty collections
\* and the file is not created; a file comes into existence only by an
\* addGrade, a removeGrade that removed a record (both at filePath) or a
\* saveToJSON (at its path); the other operations leave the files alone.
C10_FileCreatedOnlyByAWrite ==
    [][/\ (op' = "init" /\ ~files[arg'].exists)
            => (data' = EmptyData /\ files' = files)
       /\ \A p \in Paths :
            (~files[p].exists /\ files'[p].exists) =>
                \/ op' = "addGrade" /\ p = filePath
                \/ op' = "removeGrade" /\ ret' = TRUE /\ p = filePath
                \/ op' = "saveToJSON" /\ arg' = p
       /\ op' \in {"init", "findGrades", "nextGradeId", "loadFromJSON"}
            => files' = files]_vars

\* C10 witness: a read-only call on a store constructed where no file
\* exists: the collections are empty and there is still no file.
C10_Witness ==
    /\ op = "findGrades"
    /\ ~files[filePath].exists
    /\ data = EmptyData

----------------------------------------------------------------------------
(* C11: what the caller does to a returned Grade stays with the caller *)

\* C11: assigning value and comment on a Grade that findGrades or
\* getGradeById returned changes the object in the caller's hands and
\* nothing of the store: the grades collection is as it was, and so is
\* what findGrades and getGradeById return from then on.
C11_ReturnedGradesAreCopies ==
    [][op' = "Grade.setattr" =>
          /\ data' = data
          /\ FindGradesOf(data', EmptySearch) = FindGradesOf(data, EmptySearch)
          /\ \A id \in GradeIds :
                GetGradeByIdOf(data', id) = GetGradeByIdOf(data, id)
          /\ held'[arg'.k].obj.value = arg'.edit.value
          /\ held'[arg'.k].obj.comment = arg'.edit.comment]_vars

\* A returned Grade was written to and now differs from the stored record
\* of its id.
C11_Witness ==
    /\ op = "Grade.setattr"
    /\ LET g == held[arg.k].obj
       IN  /\ GetGradeByIdOf(data, g.id) # None
           /\ GetGradeByIdOf(data, g.id) # Some(g)

----------------------------------------------------------------------------
(* C12: what the caller does to a Group that getGroups returned *)

\* C12: addStudent or removeStudent on a Group obtained from getGroups()
\* leaves the groups collection of the store unchanged, and with it what a
\* later getGroups() returns and what a later save writes.
C12_ReturnedGroupsAreCopies ==
    [][(/\ op' \in {"Group.addStudent", "Group.removeStudent"}
        /\ held[arg'.k].origin = "getGroups") =>
          /\ data'["groups"] = data["groups"]
          /\ GetGroupsObjects(data') = GetGroupsObjects(data)
          /\ JsonDump(data') = JsonDump(data)]_vars

----------------------------------------------------------------------------
(* C13: Teacher.editGrade *)

\* The grades records of the file at the store's path
FileGrades == JsonLoad(files[filePath].doc)["grades"]

\* C13: editGrade(gradeId, newValue, comment, repo) returns True when a
\* grade of the id is stored, and afterwards getGradeById(gradeId) has the
\* new value and comment and so has the record of the id in the file; it
\* returns False and changes nothing when no grade has the id.
C13_EditGradeUpdatesTheStore ==
    [][op' = "editGrade" =>
          IF arg'.gradeId \in IdsOf(Grades)
          THEN /\ ret' = TRUE
               /\ \E g \in GetGradeByIdOf(data', arg'.gradeId) :
                     g.value = arg'.edit.value /\ g.comment = arg'.edit.comment
               /\ files'[filePath].exists
               /\ \E i \in 1..Len(FileGrades') :
                     /\ FileGrades'[i]["id"] = arg'.gradeId
                     /\ FileGrades'[i]["value"] = arg'.edit.value
          ELSE /\ ret' = FALSE
               /\ data' = data /\ files' = files]_vars

----------------------------------------------------------------------------
(* C14, C15: the membership list of a Group *)

NoDuplicates(ids) == \A i, j \in 1..Len(ids) : ids[i] = ids[j] => i = j

\* The number of occurrences of x in a list
Count(ids, x) == Cardinality({i \in 1..Len(ids) : ids[i] = x})

\* The membership list of the Group that the last Group call was made on,
\* before and after the call
MembersBefore == held[arg'.k].obj.studentIds

MembersAfter == held'[arg'.k].obj.studentIds

\* C14 as stated: after any addStudent, on any Group, the membership list
\* has no duplicate id.
C14_NoDuplicateAfterAnyAdd ==
    [][op' = "Group.addStudent" => NoDuplicates(MembersAfter)]_vars

\* C14: addStudent appends the id when it is not in the list and leaves the
\* list as it is when it is (so a second call with the same student changes
\* nothing); it adds no duplicate and removes none: the list has a
\* duplicate after the call exactly when it had one before.
C14_AddStudentAddsNoDuplicate ==
    [][op' = "Group.addStudent" =>
          /\ arg'.studentId \in Elems(MembersAfter)
          /\ arg'.studentId \in Elems(MembersBefore) => MembersAfter = MembersBefore
          /\ arg'.studentId \notin Elems(MembersBefore) =>
                MembersAfter = Append(MembersBefore, arg'.studentId)
          /\ AddStudentIds(MembersAfter, arg'.studentId) = MembersAfter
          /\ NoDuplicates(MembersAfter) <=> NoDuplicates(MembersBefore)]_vars

\* addStudent appended an id to a list of other ids, and the list has no
\* duplicate.
C14_Witness ==
    /\ op = "Group.addStudent"
    /\ LET ids == held[arg.k].obj.studentIds
       IN  /\ Len(ids) >= 2
           /\ ids[Len(ids)] = arg.studentId
           /\ NoDuplicates(ids)

\* C15 as stated: removeStudent returns True and the id is not in the list
\* afterwards when it was a member; it returns False and leaves the list
\* when it was not.
C15_RemovedIdIsGone ==
    [][op' = "Group.removeStudent" =>
          IF arg'.studentId \in Elems(MembersBefore)
          THEN ret' = TRUE /\ arg'.studentId \notin Elems(MembersAfter)
          ELSE ret' = FALSE /\ MembersAfter = MembersBefore]_vars

\* C15: removeStudent returns True and takes one occurrence of the id out
\* of the list, the first, when the id was a member: the id is not in the
\* list afterwards exactly when it occurred once.  It returns False and
\* leaves the list when the id was not a member.  The other ids keep their
\* places.
C15_RemoveStudentTakesOutTheFirst ==
    [][op' = "Group.removeStudent" =>
          IF arg'.studentId \in Elems(MembersBefore)
          THEN /\ ret' = TRUE
               /\ Len(MembersAfter) = Len(MembersBefore) - 1
               /\ \E i \in 1..Len(MembersBefore) :
                     /\ MembersBefore[i] = arg'.studentId
                     /\ \A j \in 1..(i - 1) : MembersBefore[j] # arg'.studentId
                     /\ \A j \in 1..(i - 1) : MembersAfter[j] = MembersBefore[j]
                     /\ \A j \in i..Len(MembersAfter) :
                            MembersAfter[j] = MembersBefore[j + 1]
               /\ arg'.studentId \notin Elems(MembersAfter)
                     <=> Count(MembersBefore, arg'.studentId) = 1
          ELSE ret' = FALSE /\ MembersAfter = MembersBefore]_vars

\* removeStudent returned True and the id is gone from a list that still
\* has members.
C15_Witness ==
    /\ op = "Group.removeStudent"
    /\ ret = TRUE
    /\ LET ids == held[arg.k].obj.studentIds
       IN  Len(ids) >= 1 /\ arg.studentId \notin Elems(ids)

----------------------------------------------------------------------------
(* C16: loading a file that lacks the five-collection shape *)

\* The document of a file has the five collections
FiveCollections(d) == DOMAIN d = Elems(CollectionNames)

\* C16: loadFromJSON of a file that exists but lacks the five-collection
\* shape fails and leaves the in-memory state as it was, and after a load
\* that succeeded all five collections are present.
C16_MalformedFileFailsTheLoad ==
    [][op' = "loadFromJSON" =>
          /\ (/\ files[arg'].exists
              /\ ~FiveCollections(JsonLoad(files[arg'].doc)))
                => (ret' # None /\ data' = data)
          /\ ret' = None => FiveCollections(data')]_vars

----------------------------------------------------------------------------
(* C17: Student.getGrades *)

\* C17: getGrades returns the grades that belong to the student: every
\* returned grade has the student's id as studentId, and every stored grade
\* with that studentId is returned.
C17_GetGradesReturnsTheStudentsGrades ==
    [][op' = "Student.getGrades" =>
          /\ \A k \in 1..Len(ret') : ret'[k].studentId = arg'.id
          /\ \A i \in 1..Len(Grades) :
                Grades[i]["studentId"] = arg'.id
                    => \E k \in 1..Len(ret') : ret'[k] = GradeFromDict(Grades[i])]_vars

----------------------------------------------------------------------------
(* C20: the record findGrades joins and the record the lookup by id gives *)

\* What findGrades joins a grade of the given student id (discipline id)
\* against, as the object the lookups return: None when its index has no
\* record of the id
JoinedStudent(d, studentId) ==
    LET r == IndexGet(d["students"], studentId)
    IN  IF r = EmptyDict THEN None ELSE Some(StudentFromDict(r))

JoinedDiscipline(d, disciplineId) ==
    LET r == IndexGet(d["disciplines"], disciplineId)
    IN  IF r = EmptyDict THEN None ELSE Some(DisciplineFromDict(r))

\* C20 as stated: whatever the store holds, getStudentById and
\* getDisciplineById return the record that findGrades joins the grades of
\* that student id and discipline id against.
C20_JoinIsTheLookupById ==
    [][/\ op' = "getStudentById" => ret' = JoinedStudent(data, arg')
       /\ op' = "getDisciplineById" => ret' = JoinedDiscipline(data, arg')]_vars

\* C20: getStudentById and getDisciplineById return the first record of the
\* id and findGrades joins against the last one; the two are the same
\* record when the id is the id of one record or of none, and they are the
\* first and the last record of the id when several records share it.
C20_JoinIsLastLookupIsFirst ==
    [][/\ op' = "getStudentById" =>
            LET records == data["students"]
                hits == IdHits(records, arg')
            IN  /\ hits = {} => ret' = None /\ JoinedStudent(data, arg') = None
                /\ \A i \in hits :
                      /\ (\A j \in hits : i <= j) =>
                            ret' = Some(StudentFromDict(records[i]))
                      /\ (\A j \in hits : j <= i) =>
                            JoinedStudent(data, arg') = Some(StudentFromDict(records[i]))
                /\ Cardinality(hits) <= 1 => ret' = JoinedStudent(data, arg')
       /\ op' = "getDisciplineById" =>
            LET records == data["disciplines"]
                hits == IdHits(records, arg')
            IN  /\ hits = {} => ret' = None /\ JoinedDiscipline(data, arg') = None
                /\ \A i \in hits :
                      /\ (\A j \in hits : i <= j) =>
                            ret' = Some(DisciplineFromDict(records[i]))
                      /\ (\A j \in hits : j <= i) =>
                            JoinedDiscipline(data, arg') = Some(DisciplineFromDict(records[i]))
                /\ Cardinality(hits) <= 1 => ret' = JoinedDiscipline(data, arg')]_vars

\* getStudentById was called with the student id of a stored grade, an id
\* that two student records share, and returned a record other than the
\* one findGrades joins.
C20_Witness ==
    /\ op = "getStudentById"
    /\ Cardinality(IdHits(data["students"], arg)) = 2
    /\ \E i \in 1..Len(Grades) : Grades[i]["studentId"] = arg
    /\ ret # None
    /\ ret # JoinedStudent(data, arg)

----------------------------------------------------------------------------
(* C18: removeGrade of an id that is not stored *)

\* C18: removeGrade(id) with no grade of the id stored makes no persistence
\* call: it returns False, every file is as it was (a file that did not
\* exist is not created) and so is the store.
C18_AbsentRemoveWritesNothing ==
    [][(op' = "removeGrade" /\ arg' \notin IdsOf(Grades)) =>
          /\ ret' = FALSE
          /\ files' = files
          /\ data' = data]_vars

\* removeGrade found no grade of the id in a store that has grades, and the
\* file at the store's path does not hold what the store holds: a save
\* would have changed it.
C18_Witness ==
    /\ op = "removeGrade" /\ ret = FALSE
    /\ Grades # <<>>
    /\ files[filePath].exists
    /\ JsonLoad(files[filePath].doc) # data

----------------------------------------------------------------------------
(* C19: ids taken from nextGradeId *)

\* C19: when every added grade takes its id from nextGradeId() on the state
\* it is added to, and grades are removed at will, the ids of the stored
\* grades stay pairwise distinct; the id of an added grade is above the ids
\* of all other stored grades.
C19_NextGradeIdKeepsIdsUnique ==
    /\ UniqueIds(Grades)
    /\ op = "addGrade" =>
          \A i \in 1..(Len(Grades) - 1) : Grades[i]["id"] < arg.id

\* An id freed by a removal was handed out again: the store began with the
\* first seed, whose second grade had id 2, and a grade of id 2 was added
\* next to the first grade of the seed.
C19_Witness ==
    /\ op = "addGrade" /\ arg.id = 2
    /\ Len(Grades) = 2
    /\ Grades[1] = SeedA["grades"][1]
    /\ Grades[2] = GradeToDict(arg)

----------------------------------------------------------------------------
(* C21: what removeGrade changes and what it leaves *)

\* The number of records of the id among the first i grades
RemovedUpTo(grades, id, i) ==
    Cardinality({j \in 1..i : grades[j]["id"] = id})

\* C21: removeGrade(id) changes the grades collection only: the store has
\* the same collections, the other four unchanged; no record of the id is
\* left; every record of another id is kept, moved up by the number of
\* removed records before it, so the kept records are in their storage order
\* and nothing else is in the collection.
C21_RemoveChangesOnlyTheGrades ==
    [][op' = "removeGrade" =>
          /\ DOMAIN data' = DOMAIN data
          /\ \A n \in DOMAIN data : n # "grades" => data'[n] = data[n]
          /\ \A i \in 1..Len(data'["grades"]) : data'["grades"][i]["id"] # arg'
          /\ Len(data'["grades"])
                = Len(Grades) - RemovedUpTo(Grades, arg', Len(Grades))
          /\ \A i \in 1..Len(Grades) :
                Grades[i]["id"] # arg'
                    => data'["grades"][i - RemovedUpTo(Grades, arg', i)] = Grades[i]]_vars

\* removeGrade took records out of a store with students and groups and
\* kept two grades that differ.
C21_Witness ==
    /\ op = "removeGrade" /\ ret = TRUE
    /\ Len(Grades) = 2 /\ Grades[1] # Grades[2]
    /\ data["students"] # <<>> /\ data["groups"] # <<>>

----------------------------------------------------------------------------
(* C22: a write that fails inside addGrade *)

\* C22: when the write inside addGrade fails, the failure reaches the
\* caller and nothing is rolled back: the new record is the last of the
\* grades collection, the other collections are as they were, and the
\* backing file, either as it was or cut short, is not a document of the
\* store's state.  The next write that succeeds puts the whole state, that
\* record included, into the file.
C22_FailedWriteKeepsTheGradeInMemory ==
    [][/\ (op' = "addGrade" /\ ret' # None) =>
            /\ ret' = Some("OSError")
            /\ data' = [data EXCEPT !["grades"] = Append(@, GradeToDict(arg'))]
            /\ \/ files' = files
               \/ files' = [files EXCEPT ![filePath] = Truncated]
            /\ files'[filePath] # FileOf(JsonDump(data'))
       /\ (op' = "saveToJSON" /\ arg' = filePath) =>
            /\ data' = data
            /\ files'[filePath] = FileOf(JsonDump(data))
            /\ \A i \in 1..Len(Grades) : FileGrades'[i] = Grades[i]
       /\ (op' = "addGrade" /\ ret' = None) =>
            /\ files'[filePath] = FileOf(JsonDump(data'))
            /\ \A i \in 1..Len(Grades) : FileGrades'[i] = Grades[i]]_vars

\* The write inside addGrade failed: the store holds two grades and the
\* file, a complete document, holds the first of them only.
C22_Witness ==
    /\ op = "addGrade" /\ ret # None
    /\ Len(Grades) = 2
    /\ files[filePath].exists /\ files[filePath] # Truncated
    /\ FileGrades = <<Grades[1]>>

====
